---- MODULE Spec2Model ----
(***************************************************************************)
(* Frankenstein moral-drift ABM: FrankensteinNetworkModel (src/model.py)   *)
(* with CreatureAgent and HumanAgent (src/agent.py).                       *)
(*                                                                         *)
(* Number encodings                                                        *)
(*  - trust is a Python float.  Every double d the program can store in    *)
(*    trust is written as the integer 64*n + e, where n = round(10*d) and  *)
(*    e = (d - fl(n/10)) * 2^56, fl(x) being the double nearest to x.      *)
(*    All stored values have |e| <= 16, so the integer order is the order  *)
(*    of the doubles: -1.0 is -640, 0.0 is 0, 0.1 is 64, 0.5 is 320,       *)
(*    1.0 is 640, and 0.09999999999999987 (= -1.0 plus eleven times 0.1)   *)
(*    is 54.                                                               *)
(*  - fractions and the rewiring probability are in tenths.                *)
(*  - thresholds are in hundredths (0.75 * 10 is 750).                     *)
(*                                                                         *)
(* Library calls, as the code reads them                                   *)
(*  - nx.watts_strogatz_graph(n, k, p) raises for k > n, returns the       *)
(*    complete graph for k = n, and draws from the module-level random.    *)
(*  - grid.get_neighbors(pos) gives the ids of the nodes joined to pos     *)
(*    (the loop of src/agent.py:73-76 looks each one up as a cell).        *)
(*  - Model.__init__(seed=seed) seeds self.random and nothing else;        *)
(*    agents.shuffle_do("step") calls step() once on every agent.          *)
(***************************************************************************)
EXTENDS Integers, Sequences, FiniteSets, TLC

VARIABLES args, model, pc, tick, last, twin, unit

vars == <<args, model, pc, tick, last, twin, unit>>

----------------------------------------------------------------------------
(* Bounds of the explored inputs *)

MaxHumans == 3
MaxDegree == 3

(* model is NoModel until __init__ has returned *)
NoModel == "NoModel"

----------------------------------------------------------------------------
(* src/agent.py:5-13 : the two enumerations *)

FEARFUL == -640
NEUTRAL == 0
COMPASSIONATE == 640

PEACEFUL == "PEACEFUL"
CAUTIOUS == "CAUTIOUS"
VENGEFUL == "VENGEFUL"

CreatureStateValue(s) ==
    CASE s = PEACEFUL -> 0
      [] s = CAUTIOUS -> 1
      [] s = VENGEFUL -> 2

(* the float literals of src/agent.py, in the encoding above *)
TENTH == 64
HALF == 320
ONE == 640

(* HumanAgent.__init__: TrustLevel[h_type.upper()].value as a float *)
TrustOfType(h_type) ==
    CASE h_type = "fearful" -> FEARFUL
      [] h_type = "compassionate" -> COMPASSIONATE
      [] h_type = "neutral" -> NEUTRAL

----------------------------------------------------------------------------
(* IEEE-754 double arithmetic on the values trust can hold *)

(* What the double d + 0.1 differs by from the encoding of d plus that of *)
(* 0.1, for each double d that trust can hold: -0.8 + 0.1 is              *)
(* -0.7000000000000001 (-456, not -448), 0.2 + 0.1 is                     *)
(* 0.30000000000000004 (196, not 192).                                     *)
RoundOff(t) ==
    CASE t \in {-512, 440, 448, 632} -> -8
      [] t \in {-264, 196} -> -4
      [] t \in {-204, 118} -> 2
      [] t = 128 -> 4
      [] OTHER -> 0

(* agent.trust + 0.1 *)
FloatAddTenth(t) == t + TENTH + RoundOff(t)

Min(a, b) == IF a < b THEN a ELSE b
Max(a, b) == IF a > b THEN a ELSE b

----------------------------------------------------------------------------
(* The constructor's arguments (src/model.py:17-30) *)

DefaultInitialEdges == 3

HumanCounts == 1..MaxHumans
Degrees == 0..MaxDegree
(* <<fearful_frac, compassionate_frac>> in tenths: the defaults, and a    *)
(* pair whose sum exceeds 1                                                *)
Fractions == {<<4, 2>>, <<6, 6>>}
(* rewiring_prob in tenths: the default, 0.1 *)
RewiringProbs == {1}
InitialEdgeCounts == {DefaultInitialEdges}
MaxEmotions == {0, 5, 10}
(* an optional argument is <<>> when it is None and <<v>> when given;     *)
(* thresholds in hundredths                                                *)
ResThresholds == {<<>>, <<-100>>}
EmpThresholds == {<<>>}
Seeds == {<<1>>}

Args ==
    [n_humans : HumanCounts,
     fracs : Fractions,
     avg_degree : Degrees,
     rewiring_prob : RewiringProbs,
     initial_edges : InitialEdgeCounts,
     max_emotion : MaxEmotions,
     res_threshold : ResThresholds,
     emp_threshold : EmpThresholds,
     enable_broadcast : BOOLEAN,
     seed : Seeds]

----------------------------------------------------------------------------
(* Topology: nx.watts_strogatz_graph and the Creature's node               *)

(* src/model.py:52 : the node "creature"; the Humans' nodes are 0..n-1 *)
creature_node == -1

HumanNodes(n) == 0..(n - 1)

(* a graph is its set of edges, an edge a set of two nodes *)
Neighbors(G, u) == {v \in (UNION G) \ {u} : {u, v} \in G}

(* src/model.py:50 *)
EvenDegree(avg_degree) ==
    IF avg_degree % 2 = 0 THEN avg_degree ELSE avg_degree + 1

(* the ring lattice's edges in the order the generator visits them:       *)
(* for j in 1..k/2, for u in 0..n-1, the edge (u, (u + j) mod n)           *)
LatticeEdges(n, k) ==
    [i \in 1..((k \div 2) * n) |->
        LET j == ((i - 1) \div n) + 1
            u == (i - 1) % n
        IN  <<u, (u + j) % n>>]

(* the graphs the rewiring pass can leave, from edge i of es on: each     *)
(* edge (u, v) is, with probability p, replaced by (u, w) for a w that is *)
(* neither u nor a neighbor of u; skipped when u is joined to everyone    *)
RECURSIVE Rewired(_, _, _, _, _)
Rewired(G, es, i, n, p) ==
    IF i > Len(es) THEN {G}
    ELSE LET u == es[i][1]
             v == es[i][2]
             keep == Rewired(G, es, i + 1, n, p)
             free == {w \in HumanNodes(n) : w # u /\ {u, w} \notin G}
             move == IF Cardinality(Neighbors(G, u)) >= n - 1 THEN keep
                     ELSE UNION {Rewired((G \ {{u, v}}) \cup {{u, w}},
                                         es, i + 1, n, p) : w \in free}
         IN  IF p <= 0 THEN keep
             ELSE IF p >= 10 THEN move
             ELSE keep \cup move

(* nx.watts_strogatz_graph(n, k, p): k > n is an error, k = n is the      *)
(* complete graph                                                          *)
watts_strogatz_graph(n, k, p) ==
    IF k = n THEN {{{u, v} : u, v \in HumanNodes(n)} \ {{u} : u \in HumanNodes(n)}}
    ELSE LET es == LatticeEdges(n, k)
         IN  Rewired({{es[i][1], es[i][2]} : i \in DOMAIN es}, es, 1, n, p)

----------------------------------------------------------------------------
(* HumanAgent (src/agent.py:15-94) *)

(* interact() without the Vengeful branch of lines 40-42 *)
human_interact_ignores_state(trust, creature_state, coin) ==
    IF trust < 0 THEN <<trust, "reject">>
    ELSE IF trust > 0 THEN <<trust, "accept">>
    ELSE <<trust, IF coin THEN "accept" ELSE "reject">>

(* interact() with the neutral Human always accepting *)
human_interact_ignores_coin(trust, creature_state, coin) ==
    IF creature_state = VENGEFUL THEN <<FEARFUL, "reject">>
    ELSE IF trust < 0 THEN <<trust, "reject">>
    ELSE <<trust, "accept">>

(* interact() with the coin for every trust that is not above 0 *)
human_interact_fearful_flips(trust, creature_state, coin) ==
    IF creature_state = VENGEFUL THEN <<FEARFUL, "reject">>
    ELSE IF trust > 0 THEN <<trust, "accept">>
    ELSE <<trust, IF coin THEN "accept" ELSE "reject">>

(* interact() without the reset of line 41 *)
human_interact_keeps_trust(trust, creature_state, coin) ==
    IF creature_state = VENGEFUL THEN <<trust, "reject">>
    ELSE IF trust < 0 THEN <<trust, "reject">>
    ELSE IF trust > 0 THEN <<trust, "accept">>
    ELSE <<trust, IF coin THEN "accept" ELSE "reject">>

(* interact(creature_state): <<trust afterwards, outcome>>; coin is       *)
(* self.random.random() < 0.5                                              *)
human_interact(trust, creature_state, coin) ==
    IF creature_state = VENGEFUL THEN <<FEARFUL, "reject">>
    ELSE IF trust < 0 THEN <<trust, "reject">>
    ELSE IF trust > 0 THEN <<trust, "accept">>
    ELSE <<trust, IF coin THEN "accept" ELSE "reject">>

(* learn() with `self.trust < 0` for `self.trust == -1` *)
learn_lifts_any_negative(trust, outcome) ==
    IF trust < 0 /\ outcome = "accept" THEN NEUTRAL ELSE trust

(* learn(outcome): the trust afterwards *)
learn(trust, outcome) ==
    IF trust = FEARFUL /\ outcome = "accept" THEN NEUTRAL ELSE trust

(* line 78 without its cap *)
nudge_uncapped(t) == FloatAddTenth(t)

(* the assignment of line 78 *)
nudge(t) == Min(FloatAddTenth(t), ONE)

(* broadcast_trust() without the test of enable_broadcast *)
broadcast_trust_always(trust, G, h, enable_broadcast) ==
    IF trust[h] <= 0 THEN trust
    ELSE [a \in DOMAIN trust |->
            IF a \in Neighbors(G, h) /\ trust[a] < trust[h]
            THEN nudge(trust[a])
            ELSE trust[a]]

(* broadcast_trust() of the Human on node h: the trust of every Human     *)
(* afterwards.  grid.get_neighbors gives the nodes joined to h; only a    *)
(* Human's node holds a HumanAgent, one each.                              *)
broadcast_trust(trust, G, h, enable_broadcast) ==
    IF ~enable_broadcast \/ trust[h] <= 0 THEN trust
    ELSE [a \in DOMAIN trust |->
            IF a \in Neighbors(G, h) /\ trust[a] < trust[h]
            THEN nudge(trust[a])
            ELSE trust[a]]

(* get_trust_label() with strict comparisons *)
get_trust_label_strict(t) ==
    IF t < -HALF THEN "fearful"
    ELSE IF t > HALF THEN "compassionate"
    ELSE "neutral"

(* get_trust_label() *)
get_trust_label(t) ==
    IF t <= -HALF THEN "fearful"
    ELSE IF t >= HALF THEN "compassionate"
    ELSE "neutral"

----------------------------------------------------------------------------
(* CreatureAgent (src/agent.py:96-152) *)

EMPATHY_INIT == 10
RESENTMENT_INIT == 0
EMOTION_CAP == 10

(* CreatureAgent.__init__ and grid.place_agent(creature, creature_node) *)
NewCreature ==
    [pos |-> creature_node,
     empathy |-> EMPATHY_INIT,
     resentment |-> RESENTMENT_INIT,
     state |-> PEACEFUL]

(* lines 140-145 with the Cautious test first *)
classify_cautious_first(empathy, resentment, rt, et) ==
    IF 1000 * resentment > 6 * rt THEN CAUTIOUS
    ELSE IF 100 * resentment > rt /\ 100 * empathy < et THEN VENGEFUL
    ELSE PEACEFUL

(* lines 140-145; thresholds in hundredths, 0.6 * rt as 6 * rt / 10 *)
classify(empathy, resentment, rt, et) ==
    IF 100 * resentment > rt /\ 100 * empathy < et THEN VENGEFUL
    ELSE IF 1000 * resentment > 6 * rt THEN CAUTIOUS
    ELSE PEACEFUL

(* update_emotions() without the max(., 0) of line 133 *)
update_emotions_no_floor(c, outcome, rt, et) ==
    LET e == IF outcome = "accept" THEN Min(c.empathy + 1, EMOTION_CAP)
             ELSE Max(c.empathy - 1, 0)
        r == IF outcome = "accept" THEN c.resentment - 1
             ELSE Min(c.resentment + 1, EMOTION_CAP)
    IN  [c EXCEPT !.empathy = e, !.resentment = r,
                  !.state = classify(e, r, rt, et)]

(* update_emotions(outcome): the Creature afterwards *)
update_emotions(c, outcome, rt, et) ==
    LET e == IF outcome = "accept" THEN Min(c.empathy + 1, EMOTION_CAP)
             ELSE Max(c.empathy - 1, 0)
        r == IF outcome = "accept" THEN Max(c.resentment - 1, 0)
             ELSE Min(c.resentment + 1, EMOTION_CAP)
    IN  [c EXCEPT !.empathy = e, !.resentment = r,
                  !.state = classify(e, r, rt, et)]

(* grid.move_agent(creature, node) *)
move_agent(m, node) == [m EXCEPT !.creature.pos = node]

(* the nodes move() and model.step() choose from:                         *)
(* G.neighbors(creature.unique_id), unique_id being the Creature's node   *)
MoveChoices(m) == Neighbors(m.G, creature_node)

(* the HumanAgents in grid.get_cell_list_contents([pos]) *)
HumansAt(m, pos) == {h \in DOMAIN m.trust : h = pos}

(* one pass of the loop body of interact() for the Human on node h:       *)
(* <<model afterwards, outcome, trust right after the Human's interact>>  *)
Meet(m, h, coin) ==
    LET met == human_interact(m.trust[h], m.creature.state, coin)
        outcome == met[2]
        c == update_emotions(m.creature, outcome, m.res_threshold, m.emp_threshold)
        learnt == [m.trust EXCEPT ![h] = learn(met[1], outcome)]
        spread == IF outcome = "accept"
                  THEN broadcast_trust(learnt, m.G, h, m.enable_broadcast)
                  ELSE learnt
    IN  <<[m EXCEPT !.creature = c, !.trust = spread], outcome, met[1]>>

(* move() choosing among the neighbors of the node the Creature is on *)
creature_move_from_pos(m) ==
    IF Neighbors(m.G, m.creature.pos) # {}
    THEN {move_agent(m, next_node) : next_node \in Neighbors(m.G, m.creature.pos)}
    ELSE {m}

(* move(): the models it can leave; no move when the Creature's node has *)
(* no edge                                                                 *)
creature_move(m) ==
    IF MoveChoices(m) # {}
    THEN {move_agent(m, next_node) : next_node \in MoveChoices(m)}
    ELSE {m}

(* interact() with the loop body run twice for the Human it finds *)
creature_interact_twice(m, coin) ==
    IF HumansAt(m, m.creature.pos) # {}
    THEN LET h == CHOOSE x \in HumansAt(m, m.creature.pos) : TRUE
         IN  Meet(Meet(m, h, coin)[1], h, coin)[1]
    ELSE m

(* interact(): the model afterwards.  A node holds at most one Human, so  *)
(* the loop body runs at most once.                                        *)
creature_interact(m, coin) ==
    IF HumansAt(m, m.creature.pos) # {}
    THEN Meet(m, CHOOSE h \in HumansAt(m, m.creature.pos) : TRUE, coin)[1]
    ELSE m

----------------------------------------------------------------------------
(* FrankensteinNetworkModel (src/model.py) *)

(* step(), lines 104-107: the models the first move can leave *)
model_step_move(m) ==
    IF MoveChoices(m) # {}
    THEN {move_agent(m, node) : node \in MoveChoices(m)}
    ELSE {m}

(* the thresholds, lines 33-39, in hundredths *)
ResThresholdOf(a) ==
    IF a.res_threshold = <<>> THEN 75 * a.max_emotion ELSE a.res_threshold[1]
EmpThresholdOf(a) ==
    IF a.emp_threshold = <<>> THEN 25 * a.max_emotion ELSE a.emp_threshold[1]

(* lines 87-93: the archetype drawn with r = random.random(), in tenths *)
RandomDraws == 0..9
Archetype(r, fracs) ==
    IF r < fracs[1] THEN "fearful"
    ELSE IF r < fracs[1] + fracs[2] THEN "compassionate"
    ELSE "neutral"

(* the reporters of the DataCollector, lines 58-64 *)
Collected(m) ==
    [Fearful |-> Cardinality({h \in DOMAIN m.trust : m.trust[h] <= -HALF}),
     Neutral |-> Cardinality({h \in DOMAIN m.trust :
                                 -HALF < m.trust[h] /\ m.trust[h] < HALF}),
     Compassionate |-> Cardinality({h \in DOMAIN m.trust : m.trust[h] >= HALF}),
     CreatureState |-> CreatureStateValue(m.creature.state)]

collect(m) == [m EXCEPT !.datacollector = Collected(m)]

(* the exception of __init__, if any: nx raises for k > n, random.sample  *)
(* for a sample larger than the population                                 *)
InitRaises(a) ==
    \/ EvenDegree(a.avg_degree) > a.n_humans
    \/ a.avg_degree > a.n_humans

(* sample(humans, k): the sets random.sample can return *)
Samples(S, k) == {T \in SUBSET S : Cardinality(T) = k}

(* the archetypes the draws of lines 87-93 can give *)
Archetypes(fracs) == {Archetype(r, fracs) : r \in RandomDraws}

(* the model __init__ returns for a graph, a sample of target nodes and   *)
(* the archetype drawn for each Human                                      *)
NewModel(a, ws, target_nodes, h_type) ==
    collect(
    [res_threshold |-> ResThresholdOf(a),
     emp_threshold |-> EmpThresholdOf(a),
     enable_broadcast |-> a.enable_broadcast,
     G |-> ws \cup {{creature_node, t} : t \in target_nodes},
     creature |-> NewCreature,
     trust |-> [h \in HumanNodes(a.n_humans) |->
                   TrustOfType(h_type[h])],
     datacollector |-> [Fearful |-> 0, Neutral |-> 0, Compassionate |-> 0,
                        CreatureState |-> 0]])

----------------------------------------------------------------------------
(* One run: the constructor, then model.step() any number of times.       *)
(*   pc = "new"     the constructor has been called with args             *)
(*        "failed"  the constructor raised                                *)
(*        "ready"   a snapshot has just been collected                    *)
(*        "moved"   model.step() has moved the Creature (lines 104-107)   *)
(*        "hopped"  shuffle_do has reached the Creature, move() is done   *)
(*        "met"     the Creature's interact() is done                     *)
(* tick counts what has happened since the last snapshot, last records    *)
(* the latest call of a Human's interact().  A Human's step() is `pass`,  *)
(* so its place in the shuffled order changes nothing.                    *)

NoTick == [moves |-> 0, meets |-> 0, ran |-> FALSE]
NoCall == [human |-> creature_node, state |-> PEACEFUL, before |-> 0,
           outcome |-> "none", after |-> 0, learnt |-> 0]
NoTwin == "NoTwin"
NoUnit == "NoUnit"

Init ==
    /\ args \in Args
    /\ model = NoModel
    /\ pc = "new"
    /\ tick = NoTick
    /\ last = NoCall
    /\ twin = NoTwin
    /\ unit = NoUnit

(* __init__ raises: no model object comes to exist *)
ConstructFails ==
    /\ pc = "new"
    /\ InitRaises(args)
    /\ pc' = "failed"
    /\ UNCHANGED <<args, model, tick, last, twin, unit>>

(* __init__ returns, src/model.py:31-100 *)
Construct ==
    /\ pc = "new"
    /\ ~InitRaises(args)
    /\ \E ws \in watts_strogatz_graph(args.n_humans, EvenDegree(args.avg_degree),
                                      args.rewiring_prob),
          target_nodes \in Samples(HumanNodes(args.n_humans), args.avg_degree),
          h_type \in [HumanNodes(args.n_humans) -> Archetypes(args.fracs)] :
            model' = NewModel(args, ws, target_nodes, h_type)
    /\ pc' = "ready"
    /\ UNCHANGED <<args, tick, last, twin, unit>>

(* model.step(), lines 104-107 *)
StepMove ==
    /\ pc = "ready"
    /\ model' \in model_step_move(model)
    /\ tick' = [moves |-> IF MoveChoices(model) # {} THEN 1 ELSE 0,
                meets |-> 0, ran |-> TRUE]
    /\ pc' = "moved"
    /\ UNCHANGED <<args, last, twin, unit>>

(* CreatureAgent.step(), line 148: move() *)
CreatureMove ==
    /\ pc = "moved"
    /\ model' \in creature_move(model)
    /\ tick' = [tick EXCEPT !.moves = IF MoveChoices(model) # {} THEN @ + 1 ELSE @]
    /\ pc' = "hopped"
    /\ UNCHANGED <<args, last, twin, unit>>

(* CreatureAgent.step(), line 149: interact() *)
CreatureInteract ==
    /\ pc = "hopped"
    /\ \E coin \in BOOLEAN :
         /\ model' = creature_interact(model, coin)
         /\ IF HumansAt(model, model.creature.pos) # {}
            THEN LET h == CHOOSE x \in HumansAt(model, model.creature.pos) : TRUE
                     met == Meet(model, h, coin)
                 IN  /\ tick' = [tick EXCEPT !.meets = @ + 1]
                     /\ last' = [human |-> h,
                                 state |-> model.creature.state,
                                 before |-> model.trust[h],
                                 outcome |-> met[2],
                                 after |-> met[3],
                                 learnt |-> learn(met[3], met[2])]
            ELSE UNCHANGED <<tick, last>>
    /\ pc' = "met"
    /\ UNCHANGED <<args, twin, unit>>

(* model.step() collecting before the agents have stepped *)
CollectEarly ==
    /\ pc = "moved"
    /\ model' = collect(model)
    /\ pc' = "ready"
    /\ UNCHANGED <<args, tick, last, twin, unit>>

(* model.step(), line 113 *)
Collect ==
    /\ pc = "met"
    /\ model' = collect(model)
    /\ pc' = "ready"
    /\ UNCHANGED <<args, tick, last, twin, unit>>

Next ==
    \/ ConstructFails
    \/ Construct
    \/ StepMove
    \/ CreatureMove
    \/ CreatureInteract
    \/ Collect

Spec == Init /\ [][Next]_vars

----------------------------------------------------------------------------
(* Two runs built from the same arguments, seed included, side by side:   *)
(* model is the first run and twin the second.  What comes from the       *)
(* module-level functions of `random` (random.sample, random.random,      *)
(* random.choice, and networkx with seed=None) is drawn in each run on    *)
(* its own, since Model.__init__(seed=seed) seeds self.random only; what  *)
(* comes from self.random (the coin of a neutral Human) is the same in    *)
(* both runs as long as they have agreed.  The pair is followed up to the *)
(* first difference.                                                       *)

TwinArgs ==
    {a \in Args : a.max_emotion = 10 /\ a.res_threshold = <<>> /\ a.fracs = <<4, 2>>}

TwinInit ==
    /\ Init
    /\ args \in TwinArgs

TwinConstruct ==
    /\ pc = "new"
    /\ ~InitRaises(args)
    /\ \E ws \in watts_strogatz_graph(args.n_humans, EvenDegree(args.avg_degree),
                                      args.rewiring_prob),
          target_nodes \in Samples(HumanNodes(args.n_humans), args.avg_degree),
          h_type \in [HumanNodes(args.n_humans) -> Archetypes(args.fracs)] :
            model' = NewModel(args, ws, target_nodes, h_type)
    /\ \E ws \in watts_strogatz_graph(args.n_humans, EvenDegree(args.avg_degree),
                                      args.rewiring_prob),
          target_nodes \in Samples(HumanNodes(args.n_humans), args.avg_degree),
          h_type \in [HumanNodes(args.n_humans) -> Archetypes(args.fracs)] :
            twin' = NewModel(args, ws, target_nodes, h_type)
    /\ pc' = "ready"
    /\ UNCHANGED <<args, tick, last, unit>>

TwinStepMove ==
    /\ pc = "ready"
    /\ twin = model
    /\ model' \in model_step_move(model)
    /\ twin' \in model_step_move(twin)
    /\ pc' = "moved"
    /\ UNCHANGED <<args, tick, last, unit>>

TwinCreatureMove ==
    /\ pc = "moved"
    /\ twin = model
    /\ model' \in creature_move(model)
    /\ twin' \in creature_move(twin)
    /\ pc' = "hopped"
    /\ UNCHANGED <<args, tick, last, unit>>

TwinCreatureInteract ==
    /\ pc = "hopped"
    /\ twin = model
    /\ \E coin \in BOOLEAN :
         /\ model' = creature_interact(model, coin)
         /\ twin' = creature_interact(twin, coin)
    /\ pc' = "met"
    /\ UNCHANGED <<args, tick, last, unit>>

TwinCollect ==
    /\ pc = "met"
    /\ twin = model
    /\ model' = collect(model)
    /\ twin' = collect(twin)
    /\ pc' = "ready"
    /\ UNCHANGED <<args, tick, last, unit>>

TwinNext ==
    \/ ConstructFails
    \/ TwinConstruct
    \/ TwinStepMove
    \/ TwinCreatureMove
    \/ TwinCreatureInteract
    \/ TwinCollect

SpecTwin == TwinInit /\ [][TwinNext]_vars

----------------------------------------------------------------------------
(* The methods called one at a time on a HumanAgent and on a CreatureAgent *)
(* of their own, with any argument, as a unit test calls them.  unit holds *)
(* the Human's trust, the Creature, and how many calls of                  *)
(* update_emotions() have been made and how many of them with "accept";   *)
(* last records the latest call of learn(): before and after are the      *)
(* trust it was called with, learnt the trust it left.                     *)

(* update_emotions() is called up to MaxUpdates times *)
MaxUpdates == 10

(* the doubles trust can hold: the three initial values, and what adding  *)
(* 0.1 under min(., 1.0) makes of them (src/agent.py:78)                   *)
RECURSIVE Climb(_)
Climb(t) == IF t >= ONE THEN {t} ELSE {t} \cup Climb(nudge(t))
TrustValues == Climb(FEARFUL) \cup Climb(NEUTRAL) \cup Climb(COMPASSIONATE)

Outcomes == {"accept", "reject"}

(* the default arguments, for one Human *)
UnitArgs ==
    {a \in TwinArgs : a.n_humans = 1 /\ a.avg_degree = 1 /\ a.enable_broadcast}

UnitInit ==
    /\ args \in UnitArgs
    /\ model = NoModel
    /\ pc = "unit"
    /\ tick = NoTick
    /\ last = NoCall
    /\ twin = NoTwin
    /\ unit \in [trust : TrustValues, creature : {NewCreature},
                  updates : {0}, accepts : {0}]

(* human.learn(outcome) *)
UnitLearn ==
    /\ pc = "unit"
    /\ \E outcome \in Outcomes :
         /\ unit' = [unit EXCEPT !.trust = learn(@, outcome)]
         /\ last' = [human |-> 0,
                     state |-> unit.creature.state,
                     before |-> unit.trust,
                     outcome |-> outcome,
                     after |-> unit.trust,
                     learnt |-> learn(unit.trust, outcome)]
    /\ UNCHANGED <<args, model, pc, tick, twin>>

(* creature.update_emotions(outcome) *)
UnitUpdateEmotions ==
    /\ pc = "unit"
    /\ unit.updates < MaxUpdates
    /\ \E outcome \in Outcomes :
         unit' = [unit EXCEPT
                    !.creature = update_emotions(@, outcome, ResThresholdOf(args),
                                                 EmpThresholdOf(args)),
                    !.updates = @ + 1,
                    !.accepts = IF outcome = "accept" THEN @ + 1 ELSE @]
    /\ UNCHANGED <<args, model, pc, tick, last, twin>>

UnitNext ==
    \/ UnitLearn
    \/ UnitUpdateEmotions

SpecUnit == UnitInit /\ [][UnitNext]_vars

----------------------------------------------------------------------------
(* Properties *)

(* __init__ has returned a model *)
Built == pc \notin {"new", "failed"}
Humans == DOMAIN model.trust
CreatureDegree == Cardinality(Neighbors(model.G, creature_node))

(* The constraints the specification puts on the constructor's arguments *)
ValidFractions(a) == a.fracs[1] + a.fracs[2] <= 10
ValidDegree(a) == 1 <= a.avg_degree /\ a.avg_degree <= a.n_humans - 1
ValidInitialEdges(a) == 1 <= a.initial_edges /\ a.initial_edges <= a.n_humans
ValidMaxEmotion(a) == a.max_emotion > 0
Valid(a) ==
    ValidFractions(a) /\ ValidDegree(a) /\ ValidInitialEdges(a) /\ ValidMaxEmotion(a)

(* C1: for every accepted maxEmotion > 0, in every state from             *)
(* construction on, 0 <= empathy <= maxEmotion and                        *)
(* 0 <= resentment <= maxEmotion.                                          *)
C1_EmotionsWithinMaxEmotion ==
    (Built /\ Valid(args)) =>
        /\ 0 <= model.creature.empathy
        /\ model.creature.empathy <= args.max_emotion
        /\ 0 <= model.creature.resentment
        /\ model.creature.resentment <= args.max_emotion

(* C2: every Human's trust is within [-1, +1] in every state any sequence *)
(* of ticks reaches, with broadcast enabled or disabled.                   *)
C2_TrustWithinBounds ==
    Built => \A h \in Humans : -ONE <= model.trust[h] /\ model.trust[h] <= ONE

(* C2, its case: with broadcast enabled, the latest interaction was an    *)
(* Accept, a Human other than the broadcaster stands one increment or     *)
(* less below +1 (0.9999999999999998 or 0.9999999999999999, values only   *)
(* diffusion produces), so that the next increment is capped.              *)
C2_Witness ==
    /\ pc = "met"
    /\ last.outcome = "accept"
    /\ model.enable_broadcast
    /\ \E h \in Humans \ {last.human} :
          9 * TENTH < model.trust[h] /\ model.trust[h] < ONE

(* C3: in every state, from construction on, the Creature's state is      *)
(* classify(empathy, resentment, thresholds).                              *)
C3_StateIsClassified ==
    (Built /\ Valid(args)) =>
        model.creature.state =
            classify(model.creature.empathy, model.creature.resentment,
                     model.res_threshold, model.emp_threshold)

(* C4: when the Creature is Vengeful as a Human's interact is invoked,    *)
(* the outcome is Reject and the Human's trust is -1 afterwards, whatever *)
(* the trust was and whatever the coin.                                    *)
C4_VengefulForcesReject ==
    (last.outcome # "none" /\ last.state = VENGEFUL) =>
        /\ last.outcome = "reject"
        /\ last.after = FEARFUL
        /\ (pc = "met" => model.trust[last.human] = FEARFUL)

(* C4, its case: a Human whose trust was positive has met the Vengeful    *)
(* Creature.                                                               *)
C4_Witness ==
    /\ pc = "met"
    /\ last.outcome = "reject"
    /\ last.state = VENGEFUL
    /\ last.before > 0
    /\ model.trust[last.human] = FEARFUL

(* C5: a tick performs exactly one Creature move: between two             *)
(* consecutive snapshots the position is reassigned by a move exactly     *)
(* once (the Creature's node having an edge, as a valid averageDegree     *)
(* gives it).                                                              *)
C5_OneMovePerTick ==
    (pc = "ready" /\ tick.ran /\ Valid(args)) => tick.moves = 1

(* C6: two runs built with identical construction parameters and the same *)
(* seed are identical: topology, attachment, archetypes, every movement   *)
(* and every coin flip.                                                    *)
C6_SameSeedSameRun ==
    (Built /\ Valid(args)) => twin = model

(* C7: constructing with initial_edges > n_humans ends in a configuration *)
(* error and creates no simulation state (the other arguments valid).      *)
C7_TooManyInitialEdgesRejected ==
    (/\ args.initial_edges > args.n_humans
     /\ ValidFractions(args) /\ ValidDegree(args) /\ ValidMaxEmotion(args)
     /\ pc # "new")
        => (pc = "failed" /\ ~Built)

(* C8: with fearfulFraction + compassionateFraction > 1, or with          *)
(* maxEmotion <= 0, construction fails and no tick executes (the other    *)
(* arguments valid).                                                       *)
C8_InvalidConfigurationNeverRuns ==
    (/\ ~ValidFractions(args) \/ ~ValidMaxEmotion(args)
     /\ ValidDegree(args) /\ ValidInitialEdges(args))
        => ~tick.ran

(* C9: after a successful construction the Creature's node is attached to *)
(* exactly min(creatureInitialEdges, number of Human nodes) Human nodes,  *)
(* for every valid averageDegree.                                          *)
C9_AttachedToInitialEdges ==
    (Built /\ Valid(args)) =>
        CreatureDegree = Min(args.initial_edges, args.n_humans)

(* C10: a call of broadcast_trust lowers no Human's trust, leaves none    *)
(* above +1.0, and a neighbor it changes ends no higher than the          *)
(* broadcaster.  The call is the one interact() makes after an Accept;    *)
(* the trust before it is the trust learn() has left.                      *)
C10_BroadcastNudgesTowardBroadcaster ==
    [][(/\ pc = "hopped" /\ tick'.meets > tick.meets /\ last'.outcome = "accept"
        /\ Valid(args)) =>
          \A a \in Humans :
             LET before == IF a = last'.human THEN last'.learnt ELSE model.trust[a]
                 after == model'.trust[a]
             IN  /\ after >= before
                 /\ after <= ONE
                 /\ (after # before => after <= model'.trust[last'.human])]_vars

(* C11: diffusion changes a Human's trust only when enable_broadcast is    *)
(* true, the broadcaster has just returned Accept in the Creature's       *)
(* current interaction and the broadcaster's trust is above 0, and then   *)
(* only for a neighbor of the broadcaster; every other change of trust is *)
(* the interacting Human's own, by the Vengeful reset of interact or by   *)
(* learn.  With enable_broadcast false no trust changes by broadcast.      *)
C11_DiffusionOnlyAfterAccept ==
    [][Built =>
        \A a \in Humans :
            model'.trust[a] # model.trust[a] =>
                /\ pc = "hopped"
                /\ tick'.meets > tick.meets
                /\ \/ /\ a = last'.human
                      /\ model'.trust[a] = last'.learnt
                   \/ /\ a # last'.human
                      /\ model.enable_broadcast
                      /\ last'.outcome = "accept"
                      /\ last'.learnt > 0
                      /\ a \in Neighbors(model.G, last'.human)]_vars

(* C11, its case: broadcast is disabled, a Human whose trust is above 0   *)
(* has just accepted the Creature, and a neighbor of that Human has a     *)
(* lower trust, which an enabled broadcast would have raised.              *)
C11_Witness ==
    /\ pc = "met"
    /\ ~model.enable_broadcast
    /\ last.outcome = "accept"
    /\ last.learnt > 0
    /\ \E a \in Humans \cap Neighbors(model.G, last.human) :
          model.trust[a] < last.learnt

(* C12: learn(outcome) sets trust to exactly 0 when trust is -1 and the   *)
(* outcome is Accept and leaves trust as it is in every other case        *)
(* (Reject, or any trust other than -1, intermediate values included);    *)
(* learn applied again to the result changes nothing.                      *)
C12_LearnLiftsOnlyFearfulOnAccept ==
    [][(pc = "unit" /\ last' # last) =>
          /\ unit'.trust =
                IF unit.trust = FEARFUL /\ last'.outcome = "accept"
                THEN NEUTRAL ELSE unit.trust
          /\ last'.learnt = unit'.trust
          /\ learn(unit'.trust, last'.outcome) = unit'.trust]_vars

(* C12, its case: learn has been called with Accept on a trust of -1 and  *)
(* has left 0.                                                             *)
C12_Witness ==
    /\ pc = "unit"
    /\ last.outcome = "accept"
    /\ last.before = FEARFUL
    /\ unit.trust = NEUTRAL

(* C13: when the Creature is not Vengeful, a Human's interact returns     *)
(* Reject for trust < 0 and Accept for trust > 0, and leaves trust as it  *)
(* was; for trust = 0 both an Accept and a Reject can come out.            *)
C13_TrustDecidesOutcome ==
    /\ (last.outcome # "none" /\ last.state # VENGEFUL) =>
          /\ (last.before < 0 => last.outcome = "reject")
          /\ (last.before > 0 => last.outcome = "accept")
          /\ last.outcome \in Outcomes
          /\ last.after = last.before
    /\ (/\ pc = "hopped"
        /\ model.creature.state # VENGEFUL
        /\ \E h \in HumansAt(model, model.creature.pos) : model.trust[h] = 0) =>
          /\ ENABLED (CreatureInteract /\ last'.outcome = "accept")
          /\ ENABLED (CreatureInteract /\ last'.outcome = "reject")

(* C13, its case: a Human whose trust is 0 has met a Creature that is not *)
(* Vengeful and the coin has made it reject.                               *)
C13_Witness ==
    /\ pc = "met"
    /\ last.state # VENGEFUL
    /\ last.before = NEUTRAL
    /\ last.outcome = "reject"
    /\ model.trust[last.human] = NEUTRAL

(* C14: from (empathy 10, resentment 0, Peaceful) with thresholds         *)
(* (7.5, 2.5), k consecutive Reject updates leave empathy 10 - k and      *)
(* resentment k, so ten of them end at (0, 10); the state is Vengeful     *)
(* from the 8th update on and not before it.                               *)
C14_TenRejectsEndVengeful ==
    (/\ pc = "unit"
     /\ unit.accepts = 0
     /\ ResThresholdOf(args) = 750
     /\ EmpThresholdOf(args) = 250) =>
        LET k == unit.updates
        IN  /\ unit.creature.empathy = Max(10 - k, 0)
            /\ unit.creature.resentment = Min(k, 10)
            /\ (unit.creature.state = VENGEFUL) <=> (k >= 8)
            /\ (k < 8 => unit.creature.state \in {PEACEFUL, CAUTIOUS})

(* C14, its case: ten Reject updates and no other have been applied.       *)
C14_Witness ==
    /\ pc = "unit"
    /\ unit.updates = 10
    /\ unit.accepts = 0
    /\ unit.creature.empathy = 0
    /\ unit.creature.resentment = 10
    /\ unit.creature.state = VENGEFUL

(* C15: at every snapshot the Fearful, Neutral and Compassionate counts   *)
(* are the numbers of Humans whose get_trust_label() is fearful, neutral  *)
(* and compassionate, they sum to the population size, and the reported   *)
(* Creature state is the Creature's state at that moment.                  *)
C15_SnapshotCountsLabels ==
    pc = "ready" =>
        LET labelled(l) ==
                Cardinality({h \in Humans : get_trust_label(model.trust[h]) = l})
            dc == model.datacollector
        IN  /\ dc.Fearful = labelled("fearful")
            /\ dc.Neutral = labelled("neutral")
            /\ dc.Compassionate = labelled("compassionate")
            /\ dc.Fearful + dc.Neutral + dc.Compassionate = args.n_humans
            /\ dc.CreatureState = CreatureStateValue(model.creature.state)

(* C15, its case: a snapshot taken after a tick while a Human stands      *)
(* exactly on the cut point 0.5, where diffusion has brought it.           *)
C15_Witness ==
    /\ pc = "ready"
    /\ tick.ran
    /\ \E h \in Humans : model.trust[h] = HALF
    /\ model.datacollector.Compassionate >= 1

(* C16: within a tick every move of the Creature comes before any         *)
(* interaction of that tick, and the snapshot is collected only after the *)
(* tick's moves and its interaction (with the emotion update, learn and   *)
(* broadcast it carries) have been made.                                   *)
C16_MoveThenInteractThenCollect ==
    [][Built =>
        /\ (tick'.moves # tick.moves => tick'.meets = 0)
        /\ (tick'.meets > tick.meets => tick'.moves = tick.moves /\ pc' # "ready")
        /\ (pc' = "ready" =>
              /\ tick.ran
              /\ model'.creature = model.creature
              /\ model'.trust = model.trust
              /\ (MoveChoices(model) # {} => tick.moves >= 1)
              /\ (HumansAt(model, model.creature.pos) # {} => tick.meets >= 1))]_vars

(* C16, its case: a whole tick has run, with its moves and an             *)
(* interaction, and its snapshot has been collected.                       *)
C16_Witness ==
    /\ pc = "ready"
    /\ tick.ran
    /\ tick.moves >= 1
    /\ tick.meets = 1
    /\ last.outcome # "none"

(* C17: a Vengeful Creature is not locked in: an Accept outcome can still *)
(* occur after it became Vengeful and lower resentment, so that a later   *)
(* state can be Cautious or Peaceful.  Taken where it is most likely:     *)
(* the Vengeful Creature is about to interact with a Human whose trust is *)
(* 0 or above, and this interaction can then come out as an Accept that   *)
(* lowers resentment.                                                      *)
C17_VengefulNotLockedIn ==
    (/\ pc = "hopped"
     /\ Valid(args)
     /\ model.creature.state = VENGEFUL
     /\ \E h \in HumansAt(model, model.creature.pos) : model.trust[h] >= 0) =>
        ENABLED (/\ CreatureInteract
                 /\ last'.outcome = "accept"
                 /\ model'.creature.resentment < model.creature.resentment)

(* C17 as amended: a Vengeful Creature is locked in: once the state is    *)
(* Vengeful every later interaction comes out as a Reject and the state   *)
(* is Vengeful ever after.                                                 *)
C17_VengefulStaysVengeful ==
    [][(Built /\ model.creature.state = VENGEFUL) =>
          /\ model'.creature.state = VENGEFUL
          /\ model'.creature.resentment >= model.creature.resentment
          /\ (tick'.meets > tick.meets => last'.outcome = "reject")]_vars

(* C17, its case: the Creature was Vengeful when it met a Human whose     *)
(* trust was above 0, and the snapshot after that meeting reports it      *)
(* Vengeful.                                                               *)
C17_Witness ==
    /\ pc = "ready"
    /\ tick.ran
    /\ last.state = VENGEFUL
    /\ last.before > 0
    /\ model.creature.state = VENGEFUL
    /\ model.datacollector.CreatureState = CreatureStateValue(VENGEFUL)

(* C18: every move of the Creature travels along an edge: when a move     *)
(* assigns the position, the new position is a neighbor in the graph of   *)
(* the position held right before the move; a position without neighbors  *)
(* is kept.                                                                *)
C18_MovesAlongEdges ==
    [][(Built /\ Valid(args) /\ pc \in {"ready", "moved"}) =>
          LET here == Neighbors(model.G, model.creature.pos)
          IN  IF here = {}
              THEN model'.creature.pos = model.creature.pos
              ELSE model'.creature.pos \in here]_vars

C20_EmotionsSumToTen ==
    Built => model.creature.empathy + model.creature.resentment = 10

(* C20, its case: broadcast is off and every Human's trust is above 0, so *)
(* every outcome so far was an Accept, given at (10, 0), where both       *)
(* clamps act.                                                             *)
C20_Witness ==
    /\ pc = "met"
    /\ tick.meets = 1
    /\ ~model.enable_broadcast
    /\ \A h \in Humans : model.trust[h] > 0
    /\ last.outcome = "accept"
    /\ model.creature.empathy = 10
    /\ model.creature.resentment = 0

(* C21: inside a run learn never changes a trust, since interact returns  *)
(* Accept only for a Human whose trust is 0 or above; so with broadcast   *)
(* disabled no trust ever increases: a trust is one of the three initial  *)
(* values, a step leaves it as it was or puts it to -1, and a Human at -1 *)
(* stays at -1.                                                            *)
C21_LearnNeverActsInARun ==
    [][Built =>
        /\ (tick'.meets > tick.meets =>
              /\ last'.learnt = last'.after
              /\ (last'.outcome = "accept" => last'.after >= 0))
        /\ (~model.enable_broadcast =>
              \A h \in Humans :
                 /\ model.trust[h] \in {FEARFUL, NEUTRAL, COMPASSIONATE}
                 /\ model'.trust[h] \in {model.trust[h], FEARFUL}
                 /\ model'.trust[h] <= model.trust[h]
                 /\ (model.trust[h] = FEARFUL => model'.trust[h] = FEARFUL))]_vars

(* C21, its case: with broadcast disabled, a Human whose trust was above  *)
(* 0 has been put to -1 by the Vengeful Creature, another Human still has *)
(* a trust above 0, and learn has been called in the meeting.              *)
C21_Witness ==
    /\ pc = "met"
    /\ tick.meets = 1
    /\ ~model.enable_broadcast
    /\ last.state = VENGEFUL
    /\ last.before > 0
    /\ last.learnt = FEARFUL
    /\ model.trust[last.human] = FEARFUL
    /\ \E h \in Humans : model.trust[h] > 0

(* C22: when the Creature's node has at least one edge, every tick makes  *)
(* exactly one interaction with a Human and so exactly one emotion        *)
(* update: empathy and resentment change in the tick's interaction only,  *)
(* each by at most 1, hence by at most 1 from one snapshot to the next.    *)
C22_OneInteractionPerTick ==
    [][(Built /\ CreatureDegree >= 1) =>
        LET de == model'.creature.empathy - model.creature.empathy
            dr == model'.creature.resentment - model.creature.resentment
        IN  /\ (pc = "hopped" =>
                  /\ tick.meets = 0
                  /\ tick'.meets = 1
                  /\ Cardinality(HumansAt(model, model.creature.pos)) = 1
                  /\ de \in {-1, 0, 1}
                  /\ dr \in {-1, 0, 1})
            /\ (pc # "hopped" => de = 0 /\ dr = 0)
            /\ (pc' = "ready" => tick.meets = 1)]_vars

(* C22, its case: the snapshot of a tick whose one interaction was a      *)
(* Reject that moved both counters, the third Reject at least.             *)
C22_Witness ==
    /\ pc = "ready"
    /\ tick.ran
    /\ tick.meets = 1
    /\ CreatureDegree >= 1
    /\ last.outcome = "reject"
    /\ model.creature.resentment >= 3
    /\ model.creature.resentment < 10

====
